---- MODULE Spec2Model ----
(***************************************************************************)
(* Model of SurrealCam: the filter pipeline of filtros.py (load_and_resize *)
(* -> transform -> save, with the copyfile fallback of every except        *)
(* clause), the disk guard, and take_photo of menu_oled_11.py.             *)
(*                                                                         *)
(* Files are modelled by their content: two files are byte-identical iff   *)
(* their content values are equal.  An image file carries its dimensions,  *)
(* its colour mode, the history of its pixels and how it was encoded, so a *)
(* decode / resize / re-encode never yields the bytes it started from.     *)
(***************************************************************************)
EXTENDS Integers, Sequences, FiniteSets, TLC

\* ---------------------------------------------------------------- bounds
MaxPhotos == 2       \* take_photo calls per run
MaxStamp == 1        \* distinct wall-clock seconds seen by take_photo
MaxOver == 1         \* how many times larger than max_size an input may be

\* ------------------------------------------------------ program constants
MAX_W == 800
MAX_H == 600
MIN_FREE_MB == 50
MIN_FREE_SAFE_MB == 100
MB == 1024 * 1024

\* -------------------------------------------------------------- helpers
Min(a, b) == IF a <= b THEN a ELSE b
Max(a, b) == IF a >= b THEN a ELSE b
Abs(x) == IF x < 0 THEN 0 - x ELSE x
CeilDiv(a, b) == (a + b - 1) \div b

\* ---------------------------------------------------------------- files
NoFile  == [kind |-> "none"]
Corrupt == [kind |-> "corrupt"]      \* present, readable, not decodable
Partial == [kind |-> "partial"]      \* left behind by a write that failed

ImageFile(w, h, mode, px, enc) ==
    [kind |-> "image", w |-> w, h |-> h, mode |-> mode, px |-> px, enc |-> enc]

Exists(c) == c.kind # "none"

\* Paths are <<prefix, timestamp, suffix>>, the pieces of
\* os.path.join(PHOTO_DIR, f"foto_{timestamp}.jpg").
IN_PATH    == <<"in", "", ".jpg">>
OUT_PATH   == <<"out", "", ".jpg">>
OTHER_PATH == <<"other", "", ".jpg">>
DirectPaths == {IN_PATH, OUT_PATH, OTHER_PATH}

submenu_filtros_options ==
    <<"Normal", "Grano Analogico", "Glitch Digital", "Rojo Contraste",
      "Sepia", "Azul Klein", "Verde">>

Suffixes == {".jpg", "_grano.jpg", "_glitch.jpg", "_rojo.jpg", "_sepia.jpg",
             "_azul.jpg", "_verde.jpg"}
StampNames == <<"02112026_120001", "02112026_120002", "02112026_120003",
                "02112026_120004">>
Stamps == {StampNames[i] : i \in 1..MaxStamp}
PhotoPaths == {<<"foto_", t, s>> : t \in Stamps, s \in Suffixes}
Paths == DirectPaths \cup PhotoPaths

\* Sizes of the input images: below, at and above max_size, and extreme
\* aspect ratios.
InputDims ==
    {<<1, 1>>, <<40, 28>>, <<MAX_W, MAX_H>>, <<MAX_W + 1, MAX_H>>,
     <<MAX_W, MAX_H + 1>>}
    \cup {<<MAX_W * (k + 1), MAX_H * (k + 1)>> : k \in 1..MaxOver}
    \cup {<<MAX_W * (k + 3), 3>> : k \in 1..MaxOver}
    \cup {<<3, MAX_H * (k + 3)>> : k \in 1..MaxOver}

InputImages ==
    {ImageFile(d[1], d[2], m, <<"scene">>, <<"src", 0>>) :
        d \in InputDims, m \in {"RGB", "RGBA"}}

\* --------------------------------------------------------------- filters
Filters == {"filtro_normal", "filtro_grano_analogico", "filtro_glitch_digital",
            "filtro_rojo_contraste", "filtro_sepia_contraste",
            "filtro_azul_contraste", "filtro_espiral", "filtro_wes_anderson",
            "filtro_matrix_simple", "filtro_matrix_verde", "filtro_negativo"}
CatalogFilters == Filters \ {"filtro_normal"}

\* quality= argument of result.save in each filter
Quality(f) ==
    CASE f = "filtro_wes_anderson"  -> 90
      [] f = "filtro_matrix_simple" -> 90
      [] f = "filtro_matrix_verde"  -> 95
      [] OTHER                      -> 85

\* Filters whose body ends in "return True" / "return False"; the others
\* fall off the end of the function and return None on both paths.
ReturnsBool == {"filtro_espiral", "filtro_wes_anderson", "filtro_matrix_simple",
                "filtro_matrix_verde", "filtro_negativo"}

ReturnApplied(f)  == IF f \in ReturnsBool THEN "True" ELSE "None"
ReturnFallback_as_applied(f) == ReturnApplied(f)
ReturnFallback(f) == IF f \in ReturnsBool THEN "False" ELSE "None"

\* ------------------------------------------------------ load_and_resize
\* round_aspect of Image.thumbnail: of the floor lo and the ceiling hi of
\* the exact target, the one with the smaller key (min keeps the first, lo,
\* on a tie), and at least 1.  lo_le_hi says key(lo) <= key(hi).
round_aspect(lo, hi, lo_le_hi) == Max(IF lo_le_hi THEN lo ELSE hi, 1)

thumbnail_keeps_size(w, h, mw, mh) == <<w, h>>

\* img_copy.thumbnail(max_size): the size the image is reduced to.  Never
\* enlarges; keeps the aspect ratio w/h as closely as whole pixels allow.
thumbnail(w, h, mw, mh) ==
    IF mw >= w /\ mh >= h
    THEN <<w, h>>
    ELSE IF mw * h >= mh * w
         THEN \* x = round_aspect(y * aspect, key = |aspect - n / y|)
              LET lo == (mh * w) \div h
                  hi == CeilDiv(mh * w, h)
              IN  <<round_aspect(lo, hi,
                        Abs(w * mh - lo * h) <= Abs(w * mh - hi * h)),
                    mh>>
         ELSE \* y = round_aspect(x / aspect, key = 0 if n == 0 else |aspect - x / n|)
              LET lo == (mw * h) \div w
                  hi == CeilDiv(mw * h, w)
              IN  <<mw,
                    round_aspect(lo, hi,
                        lo = 0 \/ Abs(w * lo - mw * h) * hi <= Abs(w * hi - mw * h) * lo)>>

\* The in-memory image: its size and the history of its pixels.
Buffer(w, h, px) == [w |-> w, h |-> h, px |-> px]
NoBuffer == [w |-> 0, h |-> 0, px |-> <<>>]

\* load_and_resize: Image.open fails on a missing, unreadable or undecodable
\* file and the exception is re-raised; otherwise the image is converted to
\* RGB when its mode differs and reduced to fit max_size.
load_and_resize(file, readable, mw, mh) ==
    IF ~Exists(file) \/ ~readable \/ file.kind # "image"
    THEN [ok |-> FALSE, img |-> NoBuffer, ops |-> <<"open">>]
    ELSE LET size == thumbnail(file.w, file.h, mw, mh)
             px1  == IF file.mode # "RGB" THEN Append(file.px, "convert") ELSE file.px
             px2  == IF size # <<file.w, file.h>> THEN Append(px1, "resize") ELSE px1
         IN  [ok  |-> TRUE,
              img |-> Buffer(size[1], size[2], px2),
              ops |-> <<"open", "decode">>
                      \o (IF file.mode # "RGB" THEN <<"convert">> ELSE <<>>)
                      \o (IF size # <<file.w, file.h>> THEN <<"resize">> ELSE <<>>)]

\* The transform of filter f applied to a buffer: same size, new pixels.
Transform(f, img) == Buffer(img.w, img.h, Append(img.px, f))

\* result.save(output_path, quality=q): the bytes of the encoded buffer.
Encoded(img, q) == ImageFile(img.w, img.h, "RGB", img.px, <<"jpeg", q>>)

copyfile_empty(files, noread, nowrite, src, dst) ==
    IF src = dst \/ ~Exists(files[src]) \/ src \in noread \/ dst \in nowrite
    THEN [ok |-> FALSE, files |-> files]
    ELSE [ok |-> TRUE, files |-> [files EXCEPT ![dst] = Corrupt]]

copyfile_nothing(files, noread, nowrite, src, dst) ==
    [ok |-> ~(src = dst \/ ~Exists(files[src]) \/ src \in noread \/ dst \in nowrite),
     files |-> files]

copyfile_no_overwrite(files, noread, nowrite, src, dst) ==
    IF src = dst \/ ~Exists(files[src]) \/ src \in noread \/ dst \in nowrite
       \/ Exists(files[dst])
    THEN [ok |-> FALSE, files |-> files]
    ELSE [ok |-> TRUE, files |-> [files EXCEPT ![dst] = files[src]]]

\* shutil.copyfile(src, dst): raises when src and dst are the same file,
\* when src cannot be opened for reading or dst for writing; otherwise dst
\* holds the bytes of src.
copyfile(files, noread, nowrite, src, dst) ==
    IF src = dst \/ ~Exists(files[src]) \/ src \in noread \/ dst \in nowrite
    THEN [ok |-> FALSE, files |-> files]
    ELSE [ok |-> TRUE, files |-> [files EXCEPT ![dst] = files[src]]]

\* np.random.randint(low, high) of filtro_matrix_verde's rain streaks raises
\* ValueError when high <= low: length = randint(20, min(60, h // 1.5)) is
\* drawn h // 25 times.
MatrixVerdeRaises(h) == h \div 25 >= 1 /\ Min(60, (2 * h) \div 3) <= 20

\* The transform of f raises on this buffer with the default parameters.
TransformRaises(f, img) == f = "filtro_matrix_verde" /\ MatrixVerdeRaises(img.h)

\* ------------------------------------------------------------------ state
VARIABLES
    fs,        \* path -> content of the file at that path
    noread,    \* paths that cannot be opened for reading
    nowrite,   \* paths that cannot be opened for writing
    call,      \* the filter call in progress
    tp,        \* the take_photo call in progress
    filtro_seleccionado,
    nphotos,
    lab,       \* a transform applied to one buffer: its input, draws and output
    menu,      \* the menu globals of menu_oled_11.py
    btn        \* clock, pin levels and last_btn_time of the button polling

vars == <<fs, noread, nowrite, call, tp, filtro_seleccionado, nphotos,
          lab, menu, btn>>

\* The variables a specification does not use stay at these values.
NoLab == [op |-> "none"]
NoMenu == [running |-> FALSE]
NoBtn == [now |-> 0]

NoPath == <<"", "", "">>

IdleCall ==
    [pc |-> "idle", f |-> "", inp |-> NoPath, out |-> NoPath, img |-> NoBuffer,
     ops |-> <<>>, failed |-> "", ret |-> "", end |-> "", by |-> "",
     fs0 |-> <<>>]

StartCall_always_loads(f, inp, out, by) ==
    [pc |-> "load",
     f |-> f, inp |-> inp, out |-> out, img |-> NoBuffer, ops |-> <<>>,
     failed |-> "", ret |-> "", end |-> "", by |-> by, fs0 |-> fs]

\* A call of filter f(input_path, output_path) begins.
StartCall(f, inp, out, by) ==
    [pc |-> IF f = "filtro_normal" THEN "copy" ELSE "load",
     f |-> f, inp |-> inp, out |-> out, img |-> NoBuffer, ops |-> <<>>,
     failed |-> "", ret |-> "", end |-> "", by |-> by, fs0 |-> fs]

NoQuery == [ok |-> FALSE, free |-> 0]
NoAnswer == [exc |-> "", value |-> FALSE]

IdleTp ==
    [pc |-> "idle", mode |-> "", base_file |-> NoPath, final_file |-> NoPath,
     ret |-> NoPath, log |-> <<>>, query |-> NoQuery, space |-> NoAnswer,
     raised |-> FALSE, fs0 |-> <<>>]

\* --------------------------------------------- the steps of a filter call
\* try: image = load_and_resize(input_path, max_size)
Load ==
    /\ call.pc = "load"
    /\ LET r == load_and_resize(fs[call.inp], call.inp \notin noread, MAX_W, MAX_H)
       IN  \E fault \in BOOLEAN :      \* MemoryError and the like
             IF r.ok /\ ~fault
             THEN call' = [call EXCEPT !.pc = "transform", !.img = r.img,
                                       !.ops = @ \o r.ops]
             ELSE call' = [call EXCEPT !.pc = "except", !.failed = "load",
                                       !.ops = @ \o <<"open">>]
    /\ UNCHANGED <<lab, menu, btn, fs, noread, nowrite, tp, filtro_seleccionado, nphotos>>

\* the array arithmetic between load_and_resize and Image.fromarray
TransformStep ==
    /\ call.pc = "transform"
    /\ \E fault \in BOOLEAN :
         IF TransformRaises(call.f, call.img) \/ fault
         THEN call' = [call EXCEPT !.pc = "except", !.failed = "transform"]
         ELSE call' = [call EXCEPT !.pc = "encode",
                                   !.img = Transform(call.f, call.img),
                                   !.ops = Append(@, "transform")]
    /\ UNCHANGED <<lab, menu, btn, fs, noread, nowrite, tp, filtro_seleccionado, nphotos>>

Encode_over_input ==
    /\ call.pc = "encode"
    /\ fs' = [fs EXCEPT ![call.inp] = Encoded(call.img, Quality(call.f))]
    /\ call' = [call EXCEPT !.pc = "returned", !.end = "Succeeded",
                            !.ret = ReturnApplied(call.f),
                            !.ops = Append(@, "encode")]
    /\ UNCHANGED <<lab, menu, btn, noread, nowrite, tp, filtro_seleccionado, nphotos>>

\* result.save(output_path, quality=..., optimize=True); del ...; return
\* A save that cannot open the file leaves it alone; one that fails while
\* writing leaves a partial file behind.
Encode ==
    /\ call.pc = "encode"
    /\ \/ /\ call.out \notin nowrite
          /\ fs' = [fs EXCEPT ![call.out] = Encoded(call.img, Quality(call.f))]
          /\ call' = [call EXCEPT !.pc = "returned", !.end = "Succeeded",
                                  !.ret = ReturnApplied(call.f),
                                  !.ops = Append(@, "encode")]
       \/ /\ call.out \in nowrite
          /\ fs' = fs
          /\ call' = [call EXCEPT !.pc = "except", !.failed = "encode"]
       \/ /\ call.out \notin nowrite
          /\ fs' = [fs EXCEPT ![call.out] = Partial]
          /\ call' = [call EXCEPT !.pc = "except", !.failed = "encode",
                                  !.ops = Append(@, "encode")]
    /\ UNCHANGED <<lab, menu, btn, noread, nowrite, tp, filtro_seleccionado, nphotos>>

\* except Exception as e: print(...); copyfile(input_path, output_path)
\* An exception of copyfile leaves the function.
Fallback ==
    /\ call.pc = "except"
    /\ LET r == copyfile(fs, noread, nowrite, call.inp, call.out)
       IN  /\ fs' = r.files
           /\ call' = IF r.ok
                      THEN [call EXCEPT !.pc = "returned", !.end = "FallbackCopy",
                                        !.ret = ReturnFallback(call.f),
                                        !.ops = Append(@, "copy")]
                      ELSE [call EXCEPT !.pc = "raised", !.end = "FallbackCopy"]
    /\ UNCHANGED <<lab, menu, btn, noread, nowrite, tp, filtro_seleccionado, nphotos>>

\* filtro_normal: copyfile(input_path, output_path), outside any try
PassThrough ==
    /\ call.pc = "copy"
    /\ LET r == copyfile(fs, noread, nowrite, call.inp, call.out)
       IN  /\ fs' = r.files
           /\ call' = IF r.ok
                      THEN [call EXCEPT !.pc = "returned", !.end = "Succeeded",
                                        !.ret = "None",
                                        !.ops = Append(@, "copy")]
                      ELSE [call EXCEPT !.pc = "raised"]
    /\ UNCHANGED <<lab, menu, btn, noread, nowrite, tp, filtro_seleccionado, nphotos>>

\* ------------------------------------- filters called on arbitrary paths
OldOutput   == ImageFile(320, 240, "RGB", <<"old">>, <<"src", 0>>)
OtherImage  == ImageFile(64, 64, "RGB", <<"other">>, <<"src", 0>>)
PhotosUnwritable == {p \in PhotoPaths : p[3] # ".jpg"}

Init ==
    /\ \E a \in {NoFile, Corrupt} \cup InputImages, b \in {NoFile, OldOutput} :
         fs = [p \in Paths |->
                 CASE p = IN_PATH    -> a
                   [] p = OUT_PATH   -> b
                   [] p = OTHER_PATH -> OtherImage
                   [] OTHER          -> NoFile]
    /\ noread \in {{}, {IN_PATH}}
    /\ nowrite \in {{}, {OUT_PATH}}
    /\ call = IdleCall
    /\ tp = IdleTp
    /\ filtro_seleccionado = "Normal"
    /\ nphotos = 0
    /\ lab = NoLab
    /\ menu = NoMenu
    /\ btn = NoBtn

\* filtros.<f>(input_path, output_path) with the default parameters
Invoke(f, inp, out) ==
    /\ call.pc = "idle"
    /\ tp.pc = "idle"
    /\ call' = StartCall(f, inp, out, "direct")
    /\ UNCHANGED <<lab, menu, btn, fs, noread, nowrite, tp, filtro_seleccionado, nphotos>>

Next ==
    \/ \E f \in Filters, inp \in DirectPaths, out \in DirectPaths : Invoke(f, inp, out)
    \/ Load
    \/ TransformStep
    \/ Encode
    \/ Fallback
    \/ PassThrough

Spec == Init /\ [][Next]_vars

\* ------------------------------------------------------------ disk guard
\* What shutil.disk_usage(path) gives: the free bytes, or an exception.
FreeBytes == {0, 10 * MB, MIN_FREE_MB * MB - 1, MIN_FREE_MB * MB,
              MIN_FREE_MB * MB + 1, 100 * MB}
DiskQueries == {[ok |-> FALSE, free |-> 0]} \cup {[ok |-> TRUE, free |-> n] : n \in FreeBytes}

check_disk_space_pessimistic(q) ==
    IF q.ok THEN [exc |-> "", value |-> q.free > MIN_FREE_MB * MB]
            ELSE [exc |-> "", value |-> FALSE]

\* filtros.check_disk_space: free_mb = stat.free / (1024 * 1024);
\* return free_mb > 50; the bare except returns True.
check_disk_space(q) ==
    IF q.ok THEN [exc |-> "", value |-> q.free > MIN_FREE_MB * MB]
            ELSE [exc |-> "", value |-> TRUE]

\* check_disk_space_safe: the answer of filtros.check_disk_space; only a
\* TypeError of that call leads to the statvfs check against 100 MB.
check_disk_space_safe(q) ==
    LET r == check_disk_space(q)
    IN  IF r.exc = "TypeError"
        THEN (IF q.ok THEN q.free > MIN_FREE_SAFE_MB * MB ELSE TRUE)
        ELSE r.value

\* ------------------------------------------------------------- take_photo
PhotoModes == {"Foto B/N", "Foto Color"}

\* the camera's full-size picture
CameraImage == ImageFile(MAX_W * 4, MAX_H * 4, "RGB", <<"camera">>, <<"src", 0>>)

\* str.replace(old, new) on the pieces of a path
Replace(path, old, new) ==
    [i \in DOMAIN path |-> IF path[i] = old THEN new ELSE path[i]]

\* the suffix and the filter function of each entry of the filter menu
SuffixOf(filtro) ==
    CASE filtro = "Grano Analogico" -> "_grano.jpg"
      [] filtro = "Glitch Digital"  -> "_glitch.jpg"
      [] filtro = "Rojo Contraste"  -> "_rojo.jpg"
      [] filtro = "Sepia"           -> "_sepia.jpg"
      [] filtro = "Azul Klein"      -> "_azul.jpg"
      [] filtro = "Verde"           -> "_verde.jpg"
      [] OTHER                      -> ".jpg"

FilterOf(filtro) ==
    CASE filtro = "Grano Analogico" -> "filtro_grano_analogico"
      [] filtro = "Glitch Digital"  -> "filtro_glitch_digital"
      [] filtro = "Rojo Contraste"  -> "filtro_rojo_contraste"
      [] filtro = "Sepia"           -> "filtro_sepia_contraste"
      [] filtro = "Azul Klein"      -> "filtro_azul_contraste"
      [] filtro = "Verde"           -> "filtro_matrix_simple"
      [] OTHER                      -> "filtro_normal"

filtered_name_in_place(base_file, filtro) == base_file

\* final_file = base_file.replace(".jpg", "_<suffix>.jpg")
filtered_name(base_file, filtro) == Replace(base_file, ".jpg", SuffixOf(filtro))

\* confirm_selection with the filter submenu open:
\* filtro_seleccionado = submenu_filtros_options[filtro_index]
select_filtro(filtro_index) ==
    /\ tp.pc = "idle"
    /\ call.pc = "idle"
    /\ nphotos < MaxPhotos
    /\ filtro_seleccionado' = submenu_filtros_options[filtro_index]
    /\ filtro_seleccionado' # filtro_seleccionado
    /\ UNCHANGED <<lab, menu, btn, fs, noread, nowrite, call, tp, nphotos>>

\* take_current_photo: taken = take_photo(option), for the two photo entries
take_photo(mode) ==
    /\ tp.pc = "idle"
    /\ call.pc = "idle"
    /\ nphotos < MaxPhotos
    /\ tp' = [IdleTp EXCEPT !.pc = "check", !.mode = mode, !.fs0 = fs]
    /\ nphotos' = nphotos + 1
    /\ UNCHANGED <<lab, menu, btn, fs, noread, nowrite, call, filtro_seleccionado>>

TP_Check_proceeds ==
    /\ tp.pc = "check"
    /\ \E q \in DiskQueries :
         tp' = [tp EXCEPT !.query = q, !.space = check_disk_space(q),
                          !.pc = "kill",
                          !.log = Append(@, IF check_disk_space_safe(q)
                                            THEN "space ok" ELSE "Poco espacio")]
    /\ UNCHANGED <<lab, menu, btn, fs, noread, nowrite, call, filtro_seleccionado, nphotos>>

\* if not check_disk_space_safe(): show_message("Poco espacio"); return None
TP_Check ==
    /\ tp.pc = "check"
    /\ \E q \in DiskQueries :
         IF check_disk_space_safe(q)
         THEN tp' = [tp EXCEPT !.query = q, !.space = check_disk_space(q),
                               !.pc = "kill", !.log = Append(@, "space ok")]
         ELSE tp' = [tp EXCEPT !.query = q, !.space = check_disk_space(q),
                               !.pc = "done", !.ret = NoPath,
                               !.log = Append(@, "Poco espacio")]
    /\ UNCHANGED <<lab, menu, btn, fs, noread, nowrite, call, filtro_seleccionado, nphotos>>

\* subprocess.run(["pkill", "-f", "rpicam-still"], ...); the figures of the
\* disk query were local to check_disk_space and are gone.
TP_Kill ==
    /\ tp.pc = "kill"
    /\ tp' = [tp EXCEPT !.pc = "capture", !.query = NoQuery,
                        !.log = Append(@, "pkill")]
    /\ UNCHANGED <<lab, menu, btn, fs, noread, nowrite, call, filtro_seleccionado, nphotos>>

\* timestamp, base_file, cmd, subprocess.run(cmd, timeout=15): the camera
\* writes its picture to base_file and returns 0, or fails (return code, timeout, any other
\* exception) and base_file is removed if it exists.
TP_Capture ==
    /\ tp.pc = "capture"
    /\ \E t \in Stamps, outcome \in {"ok", "Error camara", "Timeout camara", "Error"} :
         LET base_file == <<"foto_", t, ".jpg">>
         IN  IF outcome = "ok"
             THEN /\ fs' = [fs EXCEPT ![base_file] = CameraImage]
                  /\ tp' = [tp EXCEPT !.pc = "captured", !.base_file = base_file,
                                      !.final_file = base_file,
                                      !.log = Append(@, "rpicam-still")]
             ELSE /\ fs' = [fs EXCEPT ![base_file] = NoFile]
                  /\ tp' = [tp EXCEPT !.pc = "done", !.base_file = base_file,
                                      !.ret = NoPath,
                                      !.log = @ \o <<"rpicam-still", outcome>>]
    /\ UNCHANGED <<lab, menu, btn, noread, nowrite, call, filtro_seleccionado, nphotos>>

\* if filtro_seleccionado != "Normal": final_file = ...; try: filtros.<f>(base_file, final_file)
TP_ApplyFilter ==
    /\ tp.pc = "captured"
    /\ IF filtro_seleccionado # "Normal"
       THEN LET final_file == filtered_name(tp.base_file, filtro_seleccionado)
            IN  /\ tp' = [tp EXCEPT !.pc = "filtering", !.final_file = final_file,
                                    !.log = Append(@, "filter")]
                /\ call' = StartCall(FilterOf(filtro_seleccionado), tp.base_file,
                                     final_file, "take_photo")
       ELSE /\ tp' = [tp EXCEPT !.pc = "finish"]
            /\ call' = call
    /\ UNCHANGED <<lab, menu, btn, fs, noread, nowrite, filtro_seleccionado, nphotos>>

\* the filter call is over; except: final_file = base_file
TP_FilterDone ==
    /\ tp.pc = "filtering"
    /\ call.pc \in {"returned", "raised"}
    /\ tp' = IF call.pc = "raised"
             THEN [tp EXCEPT !.pc = "finish", !.final_file = tp.base_file,
                             !.raised = TRUE]
             ELSE [tp EXCEPT !.pc = "finish"]
    /\ call' = IdleCall
    /\ UNCHANGED <<lab, menu, btn, fs, noread, nowrite, filtro_seleccionado, nphotos>>

\* cleanup_memory(); show_message("Listo!"); return os.path.basename(final_file)
\* An exception of the display ends in "except Exception": base_file is
\* removed and None returned.
TP_Finish ==
    /\ tp.pc = "finish"
    /\ \/ /\ tp' = [tp EXCEPT !.pc = "done", !.ret = tp.final_file,
                              !.log = Append(@, "Listo!")]
          /\ fs' = fs
       \/ /\ tp' = [tp EXCEPT !.pc = "done", !.ret = NoPath,
                              !.log = Append(@, "Error")]
          /\ fs' = [fs EXCEPT ![tp.base_file] = NoFile]
    /\ UNCHANGED <<lab, menu, btn, noread, nowrite, call, filtro_seleccionado, nphotos>>

\* back in the main loop
TP_Return ==
    /\ tp.pc = "done"
    /\ tp' = IdleTp
    /\ UNCHANGED <<lab, menu, btn, fs, noread, nowrite, call, filtro_seleccionado, nphotos>>

InitPhoto ==
    /\ fs = [p \in Paths |-> NoFile]
    /\ noread = {}
    /\ nowrite \in {{}, PhotosUnwritable}
    /\ call = IdleCall
    /\ tp = IdleTp
    /\ filtro_seleccionado = "Normal"
    /\ nphotos = 0
    /\ lab = NoLab
    /\ menu = NoMenu
    /\ btn = NoBtn

NextPhoto ==
    \/ \E i \in DOMAIN submenu_filtros_options : select_filtro(i)
    \/ \E mode \in PhotoModes : take_photo(mode)
    \/ TP_Check
    \/ TP_Kill
    \/ TP_Capture
    \/ TP_ApplyFilter
    \/ Load
    \/ TransformStep
    \/ Encode
    \/ Fallback
    \/ TP_FilterDone
    \/ TP_Finish
    \/ TP_Return

SpecPhoto == InitPhoto /\ [][NextPhoto]_vars

\* ------------------------------------------------- claims on filter calls
Ended == call.pc \in {"returned", "raised"}
InputReadable == Exists(call.fs0[call.inp]) /\ call.inp \notin noread
OutputWritable == call.out \notin nowrite
IsImage(c) == c.kind = "image"

\* C1: for every catalog filter, if the load, transform or encode stage
\* fails while the input file exists and is readable, then when the call
\* returns the file at output_path is byte-identical to the input file.
C1_FallbackIsByteCopy ==
    (/\ call.pc = "returned"
     /\ call.f \in CatalogFilters
     /\ call.failed \in {"load", "transform", "encode"}
     /\ InputReadable)
    => fs[call.out] = call.fs0[call.inp]

C1_Witness ==
    /\ call.pc = "returned"
    /\ call.f \in CatalogFilters
    /\ call.failed = "encode"
    /\ InputReadable
    /\ call.fs0[call.out] # call.fs0[call.inp]
    /\ fs[call.out] = call.fs0[call.inp]

C5_PassThroughCopies ==
    (call.pc = "returned" /\ call.f = "filtro_normal")
    => (fs[call.out] = call.fs0[call.inp] /\ call.ops = <<"copy">>)

C5_Witness ==
    /\ call.pc = "returned"
    /\ call.f = "filtro_normal"
    /\ IsImage(call.fs0[call.inp])
    /\ call.fs0[call.inp].w > MAX_W
    /\ fs[call.out] = call.fs0[call.inp]

\* C6 as stated: for every valid input image and every filter selection,
\* pass-through and fallback included, the image at output_path is at most
\* max_size wide and high.
C6_Original ==
    (call.pc = "returned" /\ IsImage(call.fs0[call.inp]))
    => (IsImage(fs[call.out]) /\ fs[call.out].w <= MAX_W /\ fs[call.out].h <= MAX_H)

\* C6 amended: for every valid input image, a catalog filter that ends in
\* Succeeded leaves at output_path an image at most max_size wide and high;
\* pass-through and a fallback copy leave the input's own dimensions.
C6_OutputDimensions ==
    (call.pc = "returned" /\ IsImage(call.fs0[call.inp]))
    => /\ IsImage(fs[call.out])
       /\ IF call.f \in CatalogFilters /\ call.end = "Succeeded"
          THEN /\ fs[call.out].w \in 1..MAX_W
               /\ fs[call.out].h \in 1..MAX_H
               /\ fs[call.out].w <= call.fs0[call.inp].w
               /\ fs[call.out].h <= call.fs0[call.inp].h
          ELSE /\ fs[call.out].w = call.fs0[call.inp].w
               /\ fs[call.out].h = call.fs0[call.inp].h

C6_Witness ==
    /\ call.pc = "returned"
    /\ call.end = "Succeeded"
    /\ call.f \in CatalogFilters
    /\ call.fs0[call.inp].h > MAX_H
    /\ fs[call.out].h <= MAX_H

\* C7: a filter call with output_path different from input_path leaves the
\* input file as it was, and writes no file but output_path.
C7_OnlyOutputWritten ==
    call.pc # "idle" =>
        \A p \in Paths : p # call.out => fs[p] = call.fs0[p]

C7_Witness ==
    /\ Ended
    /\ call.inp # call.out
    /\ fs[call.out] # call.fs0[call.out]
    /\ fs[call.inp] = call.fs0[call.inp]

\* --------------------------------------------------- claims on take_photo
Checked == tp.pc \notin {"idle", "check"}
Answered == tp.pc = "kill" \/ (tp.pc = "done" /\ tp.log = <<"Poco espacio">>)
Positions(ev) == {i \in DOMAIN tp.log : tp.log[i] = ev}

\* C8: check_disk_space answers false when the free space is below 50 MB
\* (10 MB), true when it is above (100 MB), true when the query itself
\* fails, and never raises.
C8_DiskGuard ==
    Answered =>
        /\ tp.space.exc = ""
        /\ (tp.query.ok /\ tp.query.free < 50 * MB) => tp.space.value = FALSE
        /\ (tp.query.ok /\ tp.query.free = 10 * MB) => tp.space.value = FALSE
        /\ (tp.query.ok /\ tp.query.free > 50 * MB) => tp.space.value = TRUE
        /\ (tp.query.ok /\ tp.query.free = 100 * MB) => tp.space.value = TRUE
        /\ ~tp.query.ok => tp.space.value = TRUE

C8_Witness ==
    /\ Answered
    /\ ~tp.query.ok
    /\ tp.space.value = TRUE
    /\ tp.pc = "kill"

\* C9: in every take_photo call the disk check comes before any capture
\* command; after a check that answered false take_photo returns None, no
\* capture was started, no filter applied and no file created or changed; a
\* capture is only started after a check that answered true.
C9_CheckBeforeCapture ==
    /\ \A i \in Positions("rpicam-still") \cup Positions("pkill") \cup Positions("filter") :
           \E j \in Positions("space ok") : j < i
    /\ Positions("Poco espacio") # {} =>
           /\ tp.log = <<"Poco espacio">>
           /\ tp.pc = "done"
           /\ tp.ret = NoPath
           /\ fs = tp.fs0
           /\ call = IdleCall
    /\ (Checked /\ ~tp.space.value) => Positions("rpicam-still") = {}

C9_Witness ==
    /\ tp.pc = "done"
    /\ tp.query.ok
    /\ tp.query.free = 10 * MB
    /\ tp.log = <<"Poco espacio">>

\* C10: whenever take_photo returns a file name with a filter other than
\* Normal selected, the unfiltered base_file still exists and the returned
\* name is an existing file of the photo directory: the suffixed filtered
\* file, or base_file when the filter call raised.
C10_KeepsOriginalAndFiltered ==
    (tp.pc = "done" /\ tp.ret # NoPath /\ filtro_seleccionado # "Normal")
    => /\ Exists(fs[tp.base_file])
       /\ tp.ret \in PhotoPaths
       /\ Exists(fs[tp.ret])
       /\ IF tp.raised
          THEN tp.ret = tp.base_file
          ELSE /\ tp.ret = <<"foto_", tp.base_file[2], SuffixOf(filtro_seleccionado)>>
               /\ tp.ret # tp.base_file

C10_Witness ==
    /\ tp.pc = "done"
    /\ filtro_seleccionado = "Sepia"
    /\ tp.ret = <<"foto_", tp.base_file[2], "_sepia.jpg">>
    /\ IsImage(fs[tp.ret])
    /\ fs[tp.ret] # fs[tp.base_file]
    /\ fs[tp.base_file] = CameraImage

\* ---------------------------------------------------------------------
\* The transforms as array arithmetic
\* ---------------------------------------------------------------------

\* A uint8 sample and the arithmetic numpy does in each dtype.
Samples == 0..255
U8(x) == x % 256
I16(x) == ((x + 32768) % 65536) - 32768
clip(x, lo, hi) == IF x < lo THEN lo ELSE IF x > hi THEN hi ELSE x

\* Sample values at the ends and in the middle of the uint8 range.
EdgeSamples == {0, 1, 127, 128, 254, 255}

\* filtro_negativo: negative_array = 255 - img_array, on a uint8 array.
negative_sample_wraps(x) == U8(256 - x)
negative_sample(x) == U8(255 - x)
negative_array(img_array) ==
    [i \in 1..Len(img_array) |-> negative_sample(img_array[i])]

\* One-pixel RGB buffers: the red sample takes every value.
NegativoInputs == {<<r, g, 255 - g>> : r \in Samples, g \in EdgeSamples}

ApplyNegativo ==
    /\ lab = NoLab
    /\ \E img_array \in NegativoInputs :
          lab' = [op |-> "negativo",
                  inp |-> img_array,
                  out |-> negative_array(img_array),
                  twice |-> negative_array(negative_array(img_array))]
    /\ UNCHANGED <<fs, noread, nowrite, call, tp, filtro_seleccionado,
                   nphotos, menu, btn>>

\* filtro_sepia: the float32 luminance times 1.0, 0.8 and 0.5, clipped and cast
\* to uint8 (the cast truncates).  0.8 as float32 is 13421773 / 2^24, and
\* 13421773 = 204 * 2^16 + 52429; the product is floored in two steps to stay
\* within 32-bit integers.
times_0_8(L) == (L * 204 + (L * 52429) \div 65536) \div 256
times_0_5(L) == L \div 2
sepia_swapped(L) ==
    <<clip(L, 0, 255), clip(times_0_5(L), 0, 255), clip(times_0_8(L), 0, 255)>>
sepia(L) ==
    <<clip(L, 0, 255), clip(times_0_8(L), 0, 255), clip(times_0_5(L), 0, 255)>>

ApplySepia ==
    /\ lab = NoLab
    /\ \E L \in Samples :
          lab' = [op |-> "sepia", inp |-> L, out |-> sepia(L)]
    /\ UNCHANGED <<fs, noread, nowrite, call, tp, filtro_seleccionado,
                   nphotos, menu, btn>>

\* filtro_espiral at intensidad = 0.  The rotation is then 0 and new_angle is
\* the angle of (dx, dy), so the sampled coordinate is
\* int(center + distance * cos(arctan2(dy, dx))), the same with sin for y.
\* In IEEE double arithmetic that sum is the integer center + dx or a value
\* just below or above it; int() truncates toward zero, so a value just below a
\* positive integer becomes that integer minus one.  CosBelow and SinBelow list
\* the <<center, dx, dy>> for which the double computation ends just below
\* center + dx >= 1 (resp. center + dy >= 1), for every center up to 3, that
\* is every buffer of up to 6 x 6.
SpiralMaxSide == 4      \* largest width and height of a warped buffer
CosBelow == {<<2, -1, -3>>, <<3, -1, -3>>}
SinBelow == {<<2, -3, -1>>, <<2, -2, -1>>, <<2, -1, -1>>, <<3, -3, -1>>,
             <<3, -2, -2>>, <<3, -2, -1>>, <<3, -1, -1>>}
source_x(center_x, dx, dy) ==
    center_x + dx - (IF <<center_x, dx, dy>> \in CosBelow THEN 1 ELSE 0)
source_y(center_y, dx, dy) ==
    center_y + dy - (IF <<center_y, dx, dy>> \in SinBelow THEN 1 ELSE 0)

Coords(w, h) == (0..(w - 1)) \X (0..(h - 1))

\* The coordinate <<x, y>> of the input a destination pixel is sampled from.
espiral_source(w, h, x, y) ==
    LET center_x == w \div 2
        center_y == h \div 2
        dx == x - center_x
        dy == y - center_y
    IN  IF dx = 0 /\ dy = 0
        THEN <<x, y>>
        ELSE <<source_x(center_x, dx, dy), source_y(center_y, dx, dy)>>

espiral(img_array, w, h) ==
    [c \in Coords(w, h) |->
        LET s == espiral_source(w, h, c[1], c[2])
        IN  IF s \in Coords(w, h)
            THEN img_array[s]
            ELSE 0]

\* A buffer whose pixels all differ and none of which is black.
Numbered(w, h) == [c \in Coords(w, h) |-> 1 + c[2] * w + c[1]]

ApplyEspiral ==
    /\ lab = NoLab
    /\ \E w \in 1..SpiralMaxSide, h \in 1..SpiralMaxSide :
          lab' = [op |-> "espiral",
                  intensidad |-> 0,
                  w |-> w,
                  h |-> h,
                  inp |-> Numbered(w, h),
                  src |-> [c \in Coords(w, h) |-> espiral_source(w, h, c[1], c[2])],
                  out |-> espiral(Numbered(w, h), w, h)]
    /\ UNCHANGED <<fs, noread, nowrite, call, tp, filtro_seleccionado,
                   nphotos, menu, btn>>

\* np.random.randint(low, high): the values it can return; it raises
\* ValueError when there is none.
randint(low, high) == low..(high - 1)

Sgn(x) == IF x < 0 THEN -1 ELSE IF x > 0 THEN 1 ELSE 0
Trunc(num, den) == Sgn(num) * (Abs(num) \div den)

\* filtro_grano_analogico on one pixel.  lum = mean(R, G, B) / 255 and
\* scale = 0.5 + 0.5 * lum, so scale = (765 + R + G + B) / 1530, and
\* noise_scaled = (noise * scale).astype(int16) truncates the float32 product.
\* scale is exact in float32 only for R + G + B = 0 or 765; elsewhere a product
\* whose exact value is a nonzero integer k may be computed just below k in
\* magnitude, and then truncates to the integer next to k toward zero.
noise_scaled(noise, pixel) ==
    LET sum == pixel[1] + pixel[2] + pixel[3]
        num == noise * (765 + sum)
        k == Trunc(num, 1530)
    IN  IF num # 0 /\ Abs(num) % 1530 = 0 /\ sum \notin {0, 765}
        THEN {I16(k), I16(k - Sgn(k))}
        ELSE {I16(k)}

\* The smallest or the largest value of a set of integers.
Pick(S, low) ==
    IF low THEN CHOOSE x \in S : \A y \in S : x <= y
           ELSE CHOOSE x \in S : \A y \in S : x >= y

\* image_array + noise_scaled[:, :, np.newaxis], in int16
grano_sum_red_only(pixel, n) ==
    [ch \in 1..3 |-> I16(pixel[ch] + (IF ch = 1 THEN n ELSE 0))]
grano_sum(pixel, n) == [ch \in 1..3 |-> I16(pixel[ch] + n)]
grano_clip_missing(sum) == sum
\* np.clip(..., 0, 255)
grano_clip(sum) == [ch \in 1..3 |-> clip(sum[ch], 0, 255)]
\* .astype(np.uint8)
as_uint8(px) == [ch \in 1..3 |-> U8(px[ch])]

\* Buffers of one or two pixels; the whole noise range of the default
\* intensidad on one pixel, a narrow range on two.
GrainPixels == {<<0, 0, 0>>, <<255, 255, 255>>, <<0, 128, 255>>,
                <<250, 5, 100>>, <<85, 85, 85>>, <<10, 245, 128>>}
GrainShapes == {<<1, 1>>, <<2, 1>>, <<1, 2>>}
GrainParams ==
    {[w |-> sh[1], h |-> sh[2], intensidad |-> i] :
        sh \in GrainShapes, i \in {0, 2, 20}}
    \ {[w |-> sh[1], h |-> sh[2], intensidad |-> 20] :
        sh \in GrainShapes \ {<<1, 1>>}}

ApplyGrano ==
    /\ lab = NoLab
    /\ \E q \in GrainParams :
       \E image_array \in [Coords(q.w, q.h) -> GrainPixels] :
       \E noise \in [Coords(q.w, q.h) -> randint(-q.intensidad, q.intensidad + 1)] :
       \E low \in [Coords(q.w, q.h) -> BOOLEAN] :
          LET scaled == [c \in Coords(q.w, q.h) |->
                            Pick(noise_scaled(noise[c], image_array[c]), low[c])]
              sum == [c \in Coords(q.w, q.h) |-> grano_sum(image_array[c], scaled[c])]
              clipped == [c \in Coords(q.w, q.h) |-> grano_clip(sum[c])]
          IN  lab' = [op |-> "grano",
                      w |-> q.w,
                      h |-> q.h,
                      intensidad |-> q.intensidad,
                      inp |-> image_array,
                      noise |-> noise,
                      noise_scaled |-> scaled,
                      sum |-> sum,
                      clipped |-> clipped,
                      out |-> [c \in Coords(q.w, q.h) |-> as_uint8(clipped[c])]]
    /\ UNCHANGED <<fs, noread, nowrite, call, tp, filtro_seleccionado,
                   nphotos, menu, btn>>

\* filtro_glitch_digital.  np.roll(a, offset, axis=1) moves every row's
\* columns right by offset, around the edge.
roll_row(w, x, offset) == (x - offset) % w
GLITCH_LINES_CAP == 15

\* A buffer all of whose samples differ.
GlitchInput(w, h) ==
    [c \in Coords(w, h) |->
        LET base == 3 * (c[2] * w + c[1])
        IN  <<U8(base + 1), U8(base + 2), U8(base + 3)>>]

\* The default shift with one band, the default glitch_lines with a narrow
\* shift, a buffer high enough for the bands to start on different rows, and
\* a shift for which randint has nothing to draw.
GlitchParams ==
    {[w |-> 3, h |-> 1, shift |-> 15, glitch_lines |-> 1],
     [w |-> 3, h |-> 1, shift |-> 1, glitch_lines |-> 20],
     [w |-> 2, h |-> 12, shift |-> 2, glitch_lines |-> 2],
     [w |-> 3, h |-> 2, shift |-> 1, glitch_lines |-> 0],
     [w |-> 1, h |-> 1, shift |-> 0, glitch_lines |-> 20]}

NoBand == [y |-> 0, slice_height |-> 0, x_offset |-> 0]

\* r, g, b = the channels; offset = randint(-shift, shift); r is rolled and
\* the channels are stacked again.
GlitchRed ==
    /\ lab = NoLab
    /\ \E q \in GlitchParams :
         LET offsets == randint(-q.shift, q.shift)
             lines == Min(q.glitch_lines, GLITCH_LINES_CAP)
             img_array == GlitchInput(q.w, q.h)
         IN  IF offsets = {}
             THEN lab' = [op |-> "glitch", pc |-> "raised", w |-> q.w, h |-> q.h,
                          shift |-> q.shift, lines |-> lines, k |-> 0,
                          offsets |-> offsets, offset |-> 0, band |-> NoBand,
                          inp |-> img_array, img |-> img_array]
             ELSE \E offset \in offsets :
                    lab' = [op |-> "glitch",
                            pc |-> IF lines = 0 THEN "done" ELSE "bands",
                            w |-> q.w, h |-> q.h,
                            shift |-> q.shift, lines |-> lines, k |-> 0,
                            offsets |-> offsets, offset |-> offset,
                            band |-> NoBand,
                            inp |-> img_array,
                            img |-> [c \in Coords(q.w, q.h) |->
                                       <<img_array[<<roll_row(q.w, c[1], offset), c[2]>>][1],
                                         img_array[c][2],
                                         img_array[c][3]>>]]
    /\ UNCHANGED <<fs, noread, nowrite, call, tp, filtro_seleccionado,
                   nphotos, menu, btn>>

\* One pass of the loop over range(min(glitch_lines, 15)).
GlitchBand ==
    /\ lab.op = "glitch"
    /\ lab.pc = "bands"
    /\ lab.k < lab.lines
    /\ \E y \in randint(0, Max(1, lab.h - 10)),
          slice_height \in randint(2, 8),
          x_offset \in randint(-lab.shift, lab.shift) :
         LET y_end == Min(y + slice_height, lab.h)
         IN  lab' = [lab EXCEPT
                !.k = @ + 1,
                !.pc = IF lab.k + 1 = lab.lines THEN "done" ELSE "bands",
                !.band = [y |-> y, slice_height |-> slice_height,
                          x_offset |-> x_offset],
                !.img = [c \in Coords(lab.w, lab.h) |->
                           IF y <= c[2] /\ c[2] < y_end
                           THEN lab.img[<<roll_row(lab.w, c[1], x_offset), c[2]>>]
                           ELSE lab.img[c]]]
    /\ UNCHANGED <<fs, noread, nowrite, call, tp, filtro_seleccionado,
                   nphotos, menu, btn>>

\* filtro_matrix_simple.  The green channel is kept, red = green // 3 and
\* blue = green // 6; then w * h // 100 pixels are drawn and each one whose
\* green is below 200 becomes the highlight.
HIGHLIGHT_BELOW == 200
Highlight == <<100, 255, 100>>
matrix_base(pixel) == <<U8(pixel[2]) \div 3, U8(pixel[2]), U8(pixel[2]) \div 6>>
is_dark_always(green) == TRUE
is_dark(green) == green < HIGHLIGHT_BELOW

\* Green channels: dark, bright, at both sides of the threshold, and a ramp.
Green(pattern, w, c) ==
    CASE pattern = "dark" -> 0
      [] pattern = "bright" -> 255
      [] pattern = "edge" -> IF (c[1] + c[2]) % 2 = 0 THEN 199 ELSE 200
      [] OTHER -> U8(13 * (c[2] * w + c[1]))

MatrixInput(pattern, w, h) ==
    [c \in Coords(w, h) |->
        LET g == Green(pattern, w, c)
        IN  <<U8(g + 50), g, 255 - g>>]

\* Buffers of 99, 100 and 200 pixels: no draw, one draw and two draws.
MatrixParams ==
    {[pattern |-> pt, w |-> 10, h |-> 10] : pt \in {"dark", "bright", "edge", "ramp"}}
    \cup {[pattern |-> "edge", w |-> 20, h |-> 10],
          [pattern |-> "ramp", w |-> 9, h |-> 11]}

NoDraw == [x |-> 0, y |-> 0, green |-> 0, hit |-> FALSE]

MatrixBase ==
    /\ lab = NoLab
    /\ \E q \in MatrixParams :
         LET img_array == MatrixInput(q.pattern, q.w, q.h)
             draws == (q.w * q.h) \div 100
         IN  lab' = [op |-> "matrix_simple",
                     pc |-> IF draws = 0 THEN "done" ELSE "draw",
                     w |-> q.w, h |-> q.h, draws |-> draws, k |-> 0,
                     last |-> NoDraw,
                     inp |-> img_array,
                     img |-> [c \in Coords(q.w, q.h) |-> matrix_base(img_array[c])]]
    /\ UNCHANGED <<fs, noread, nowrite, call, tp, filtro_seleccionado,
                   nphotos, menu, btn>>

\* One pass of the loop over range(w * h // 100).
MatrixDraw ==
    /\ lab.op = "matrix_simple"
    /\ lab.pc = "draw"
    /\ lab.k < lab.draws
    /\ \E x \in randint(0, lab.w), y \in randint(0, lab.h) :
         LET green == lab.img[<<x, y>>][2]
         IN  lab' = [lab EXCEPT
                !.k = @ + 1,
                !.pc = IF lab.k + 1 = lab.draws THEN "done" ELSE "draw",
                !.last = [x |-> x, y |-> y, green |-> green,
                          hit |-> is_dark(green)],
                !.img = IF is_dark(green)
                        THEN [@ EXCEPT ![<<x, y>>] = Highlight]
                        ELSE @]
    /\ UNCHANGED <<fs, noread, nowrite, call, tp, filtro_seleccionado,
                   nphotos, menu, btn>>

InitPixels ==
    /\ fs = [p \in Paths |-> NoFile]
    /\ noread = {}
    /\ nowrite = {}
    /\ call = IdleCall
    /\ tp = IdleTp
    /\ filtro_seleccionado = "Normal"
    /\ nphotos = 0
    /\ lab = NoLab
    /\ menu = NoMenu
    /\ btn = NoBtn

NextPixels ==
    \/ ApplyNegativo
    \/ ApplySepia
    \/ ApplyEspiral
    \/ ApplyGrano
    \/ GlitchRed
    \/ GlitchBand
    \/ MatrixBase
    \/ MatrixDraw

SpecPixels == InitPixels /\ [][NextPixels]_vars

\* C11: the negative of a buffer holds 255 - x for every sample x, each inside
\* 0..255, and the negative of the negative is the original buffer.
C11_NegativeInvolution ==
    lab.op = "negativo"
    => /\ Len(lab.out) = Len(lab.inp)
       /\ \A i \in 1..Len(lab.inp) :
             /\ lab.out[i] = 255 - lab.inp[i]
             /\ lab.out[i] \in Samples
       /\ lab.twice = lab.inp

C11_Witness ==
    /\ lab.op = "negativo"
    /\ lab.inp = <<0, 254, 1>>
    /\ lab.out = <<255, 1, 254>>
    /\ lab.twice = <<0, 254, 1>>

\* C12: for every luminance L the sepia pixel is (L, trunc(0.8 L), trunc(0.5 L)),
\* its channels are ordered B <= G <= R and each lies in 0..255.
C12_SepiaOrdered ==
    lab.op = "sepia"
    => /\ lab.out = <<lab.inp, (4 * lab.inp) \div 5, lab.inp \div 2>>
       /\ lab.out[3] <= lab.out[2]
       /\ lab.out[2] <= lab.out[1]
       /\ \A c \in 1..3 : lab.out[c] \in Samples

C12_Witness ==
    /\ lab.op = "sepia"
    /\ lab.inp = 255
    /\ lab.out = <<255, 204, 127>>

\* C13: the spiral warp with intensidad = 0 is the identity: every destination
\* coordinate is sampled from the same source coordinate and the output buffer
\* equals the input buffer.
C13_Original ==
    lab.op = "espiral"
    => /\ \A c \in Coords(lab.w, lab.h) : lab.src[c] = c
       /\ lab.out = lab.inp

\* C14: grain and glitch keep the buffer's height, width and three channels;
\* every sample they write lies in 0..255, and in the grain no int16 sum wraps
\* and no value outside 0..255 reaches the cast to uint8.
C14_ShapeAndRange ==
    /\ lab.op = "grano"
       => /\ DOMAIN lab.out = Coords(lab.w, lab.h)
          /\ DOMAIN lab.out = DOMAIN lab.inp
          /\ \A c \in Coords(lab.w, lab.h) :
                /\ DOMAIN lab.out[c] = 1..3
                /\ \A ch \in 1..3 :
                      /\ lab.sum[c][ch] = lab.inp[c][ch] + lab.noise_scaled[c]
                      /\ lab.clipped[c][ch] \in Samples
                      /\ lab.out[c][ch] = lab.clipped[c][ch]
    /\ (lab.op = "glitch" /\ lab.pc # "raised")
       => /\ DOMAIN lab.img = Coords(lab.w, lab.h)
          /\ DOMAIN lab.img = DOMAIN lab.inp
          /\ \A c \in Coords(lab.w, lab.h) :
                /\ DOMAIN lab.img[c] = 1..3
                /\ \A ch \in 1..3 : lab.img[c][ch] \in Samples

C14_Witness ==
    /\ lab.op = "grano"
    /\ lab.intensidad = 20
    /\ lab.inp[<<0, 0>>] = <<255, 255, 255>>
    /\ lab.noise[<<0, 0>>] = 20
    /\ lab.sum[<<0, 0>>] = <<275, 275, 275>>
    /\ lab.out[<<0, 0>>] = <<255, 255, 255>>

\* The samples of row y of a buffer.
RowSamples(img, w, y) == {img[<<x, y>>][ch] : x \in 0..(w - 1), ch \in 1..3}

\* C16: the offsets of the red channel and of each band are drawn from the
\* whole of -shift..shift, +shift included, none lies outside it, and every
\* shift is circular: each row keeps its samples (all of them differ here, so
\* the set and its size stand for the multiset).
C16_Original ==
    (lab.op = "glitch" /\ lab.pc # "raised")
    => /\ lab.offsets = (-lab.shift)..lab.shift
       /\ lab.offset \in (-lab.shift)..lab.shift
       /\ lab.band.x_offset \in (-lab.shift)..lab.shift
       /\ \A y \in 0..(lab.h - 1) :
             /\ RowSamples(lab.img, lab.w, y) = RowSamples(lab.inp, lab.w, y)
             /\ Cardinality(RowSamples(lab.img, lab.w, y)) = 3 * lab.w

\* C17: in the grain every pixel gets one noise value n, |n| <= intensidad,
\* on all three channels: each output channel is clamp(input + n, 0, 255) and
\* is within intensidad of its input.
C17_GrainSameNoise ==
    lab.op = "grano"
    => \A c \in Coords(lab.w, lab.h) :
          LET n == lab.noise_scaled[c]
          IN  /\ Abs(n) <= lab.intensidad
              /\ \A ch \in 1..3 :
                    /\ lab.out[c][ch] = clip(lab.inp[c][ch] + n, 0, 255)
                    /\ Abs(lab.out[c][ch] - lab.inp[c][ch]) <= lab.intensidad

C17_Witness ==
    /\ lab.op = "grano"
    /\ lab.inp[<<0, 0>>] = <<250, 5, 100>>
    /\ lab.noise[<<0, 0>>] = 20
    /\ lab.noise_scaled[<<0, 0>>] = 14
    /\ lab.out[<<0, 0>>] = <<255, 19, 114>>

\* C15: every catalog transform is total: whenever a filter call has loaded a
\* buffer of at least 1 x 1 and at most 800 x 600, its transform with the
\* default parameters does not raise, whatever is drawn.
C15_Original ==
    (call.pc = "transform" /\ call.f \in CatalogFilters
        /\ call.img.w \in 1..MAX_W /\ call.img.h \in 1..MAX_H)
    => ~TransformRaises(call.f, call.img)

\* C18: in matrix simple every pixel is (g div 3, g, g div 6) for its original
\* green g, or the highlight (100, 255, 100); a drawn pixel is highlighted only
\* if its green was below 200 when drawn; at most (w * h) div 100 pixels are
\* highlighted; a pixel whose original green is 200 or more is never changed.
C18_MatrixSimple ==
    lab.op = "matrix_simple"
    => LET G(c) == lab.inp[c][2]
           Plain(c) == <<G(c) \div 3, G(c), G(c) \div 6>>
           Changed == {c \in Coords(lab.w, lab.h) : lab.img[c] # Plain(c)}
       IN  /\ \A c \in Changed : lab.img[c] = <<100, 255, 100>> /\ G(c) < 200
           /\ Cardinality(Changed) <= (lab.w * lab.h) \div 100
           /\ lab.last.hit => lab.last.green < 200
           /\ lab.last.hit => lab.img[<<lab.last.x, lab.last.y>>] = <<100, 255, 100>>

C18_Witness ==
    /\ lab.op = "matrix_simple"
    /\ lab.pc = "done"
    /\ lab.w = 20
    /\ lab.k = 2
    /\ lab.img[<<0, 0>>] = <<100, 255, 100>>
    /\ lab.img[<<1, 0>>] = <<66, 200, 33>>
    /\ lab.last = [x |-> 1, y |-> 0, green |-> 200, hit |-> FALSE]

\* ---------------------------------------------------------------------
\* Button polling (menu_oled_11.py)
\* ---------------------------------------------------------------------

\* Times are in milliseconds.
DEBOUNCE_TIME == 250
LOOP_SLEEP == 50
MaxTicks == 7           \* the clock runs for MaxTicks * LOOP_SLEEP ms
ClockStart == 1000      \* time.time() when the loop starts: past DEBOUNCE_TIME
MaxTime == ClockStart + MaxTicks * LOOP_SLEEP

\* The pins in the order the main loop polls them.
Pins == <<"BTN_UP", "BTN_DOWN", "BTN_ENTER", "BTN_TAKE">>
PinSet == {Pins[i] : i \in 1..Len(Pins)}
PRESSED == 0
RELEASED == 1

\* The position of the loop after the read of pin returned False.
AfterPin(pin) ==
    LET i == CHOOSE j \in 1..Len(Pins) : Pins[j] = pin
    IN  IF i < Len(Pins) THEN Pins[i + 1] ELSE "sleep"

\* read_button(pin): its return value and the last_btn_time it leaves.
read_button_no_wait(pin, current_time, level, last) ==
    IF level[pin] = PRESSED
    THEN [ret |-> TRUE, last_btn_time |-> [last EXCEPT ![pin] = current_time]]
    ELSE [ret |-> FALSE, last_btn_time |-> last]
read_button(pin, current_time, level, last) ==
    IF level[pin] = PRESSED /\ current_time - last[pin] > DEBOUNCE_TIME
    THEN [ret |-> TRUE, last_btn_time |-> [last EXCEPT ![pin] = current_time]]
    ELSE [ret |-> FALSE, last_btn_time |-> last]

NoRead == [pin |-> "", ret |-> FALSE, at |-> 0, level |-> RELEASED,
           before |-> [p \in PinSet |-> 0], previous |-> 0]

\* if read_button(BTN_UP): ... elif read_button(BTN_DOWN): ...   One call of
\* read_button by the main loop; after a True the handler runs and the loop
\* goes to its sleep.  accepted is the time of each pin's last True.
ReadButton ==
    /\ btn.pc \in PinSet
    /\ LET pin == btn.pc
           r == read_button(pin, btn.now, btn.level, btn.last_btn_time)
       IN  btn' = [btn EXCEPT
              !.last_btn_time = r.last_btn_time,
              !.pc = IF r.ret THEN "sleep" ELSE AfterPin(pin),
              !.read = [pin |-> pin, ret |-> r.ret, at |-> btn.now,
                        level |-> btn.level[pin],
                        before |-> btn.last_btn_time,
                        previous |-> btn.accepted[pin]],
              !.accepted = IF r.ret THEN [@ EXCEPT ![pin] = btn.now] ELSE @]
    /\ UNCHANGED <<fs, noread, nowrite, call, tp, filtro_seleccionado,
                   nphotos, lab, menu>>

\* time.sleep(0.05), or longer; meanwhile the buttons are pressed and released.
SleepTimes == {LOOP_SLEEP, DEBOUNCE_TIME}
Sleep ==
    /\ btn.pc = "sleep"
    /\ \E d \in SleepTimes, level \in [PinSet -> {PRESSED, RELEASED}] :
          /\ btn.now + d <= MaxTime
          /\ btn' = [btn EXCEPT !.now = @ + d, !.level = level, !.pc = Pins[1]]
    /\ UNCHANGED <<fs, noread, nowrite, call, tp, filtro_seleccionado,
                   nphotos, lab, menu>>

InitButtons ==
    /\ fs = [p \in Paths |-> NoFile]
    /\ noread = {}
    /\ nowrite = {}
    /\ call = IdleCall
    /\ tp = IdleTp
    /\ filtro_seleccionado = "Normal"
    /\ nphotos = 0
    /\ lab = NoLab
    /\ menu = NoMenu
    /\ \E level \in [PinSet -> {PRESSED, RELEASED}] :
          btn = [now |-> ClockStart,
                 level |-> level,
                 last_btn_time |-> [p \in PinSet |-> 0],
                 pc |-> Pins[1],
                 read |-> NoRead,
                 accepted |-> [p \in PinSet |-> 0]]

NextButtons ==
    \/ ReadButton
    \/ Sleep

SpecButtons == InitButtons /\ [][NextButtons]_vars

\* C19: read_button returns True only for a pin that reads pressed more than
\* 250 ms after that pin's previous accepted press, whatever the other pins
\* did; accepted presses of one pin are more than 250 ms apart; a rejected
\* read leaves last_btn_time as it was; an accepted one changes only the entry
\* of its own pin.
C19_Debounce ==
    btn.read.pin \in PinSet
    => LET r == btn.read
       IN  /\ r.ret <=> (r.level = PRESSED /\ r.at - r.previous > DEBOUNCE_TIME)
           /\ r.ret => r.at - r.previous > 250
           /\ ~r.ret => btn.last_btn_time = r.before
           /\ \A p \in PinSet \ {r.pin} : btn.last_btn_time[p] = r.before[p]
           /\ btn.last_btn_time = btn.accepted

\* BTN_DOWN is accepted 50 ms after BTN_UP was, and BTN_UP was pressed again
\* exactly 250 ms after its accepted press and rejected.
C19_Witness ==
    /\ btn.read = [pin |-> "BTN_DOWN", ret |-> TRUE, at |-> ClockStart + 300,
                   level |-> PRESSED,
                   before |-> [p \in PinSet |->
                                 IF p = "BTN_UP" THEN ClockStart + 50 ELSE 0],
                   previous |-> 0]
    /\ btn.level["BTN_UP"] = PRESSED
    /\ btn.last_btn_time["BTN_UP"] = ClockStart + 50
    /\ btn.last_btn_time["BTN_DOWN"] = ClockStart + 300

\* ---------------------------------------------------------------------
\* Menu navigation (menu_oled_11.py)
\* ---------------------------------------------------------------------
menu_options ==
    <<"Foto B/N", "Foto Color", "Filtros", "Temporizador", "Borrar Fotos",
      "Enviar a Android", "Bluetooth", "Apagar Raspberry">>
submenu_timer_options == <<"Desactivado", "3 segundos", "5 segundos", "10 segundos">>
max_visible == 3

\* What the last call of take_current_photo found and did (not a global of
\* the program).
NoTake == [pressed |-> FALSE, submenu_active |-> FALSE, started |-> FALSE]

\* The handlers count the presses they served (not a global of the program).
MaxPresses == 10        \* accepted button presses per run
Press(m) == [m EXCEPT !.presses = @ + 1]

\* The globals after the module is loaded.
InitialMenu ==
    [current_index |-> 0, scroll_offset |-> 0,
     submenu_active |-> FALSE, submenu_type |-> "None",
     filtro_index |-> 0, filtro_scroll |-> 0,
     timer_index |-> 0, timer_scroll |-> 0,
     timer_seleccionado |-> "Desactivado", timer_segundos |-> 0,
     running |-> TRUE, bluetooth_active |-> TRUE,
     last_take |-> NoTake, presses |-> 0]

\* The new <<index, scroll>> of a submenu of n items.
submenu_up(index, scroll, n) ==
    LET i == (index - 1) % n
    IN  <<i, IF i < scroll THEN i ELSE scroll>>
submenu_down(index, scroll, n) ==
    LET i == (index + 1) % n
    IN  <<i, IF i >= scroll + max_visible THEN i - max_visible + 1 ELSE scroll>>

scroll_up ==
    /\ menu # NoMenu
    /\ menu.running
    /\ menu.presses < MaxPresses
    /\ tp.pc = "idle"
    /\ IF menu.submenu_active
       THEN IF menu.submenu_type = "filtros"
            THEN LET r == submenu_up(menu.filtro_index, menu.filtro_scroll,
                                     Len(submenu_filtros_options))
                 IN  menu' = [Press(menu) EXCEPT !.filtro_index = r[1],
                                          !.filtro_scroll = r[2]]
            ELSE IF menu.submenu_type = "timer"
            THEN LET r == submenu_up(menu.timer_index, menu.timer_scroll,
                                     Len(submenu_timer_options))
                 IN  menu' = [Press(menu) EXCEPT !.timer_index = r[1],
                                          !.timer_scroll = r[2]]
            ELSE menu' = Press(menu)
       ELSE LET i == Max(0, menu.current_index - 1)
            IN  menu' = [Press(menu) EXCEPT
                   !.current_index = i,
                   !.scroll_offset = IF i < @ THEN i ELSE @]
    /\ UNCHANGED <<fs, noread, nowrite, call, tp, filtro_seleccionado,
                   nphotos, lab, btn>>

scroll_down ==
    /\ menu # NoMenu
    /\ menu.running
    /\ menu.presses < MaxPresses
    /\ tp.pc = "idle"
    /\ IF menu.submenu_active
       THEN IF menu.submenu_type = "filtros"
            THEN LET r == submenu_down(menu.filtro_index, menu.filtro_scroll,
                                       Len(submenu_filtros_options))
                 IN  menu' = [Press(menu) EXCEPT !.filtro_index = r[1],
                                          !.filtro_scroll = r[2]]
            ELSE IF menu.submenu_type = "timer"
            THEN LET r == submenu_down(menu.timer_index, menu.timer_scroll,
                                       Len(submenu_timer_options))
                 IN  menu' = [Press(menu) EXCEPT !.timer_index = r[1],
                                          !.timer_scroll = r[2]]
            ELSE menu' = Press(menu)
       ELSE LET i == Min(Len(menu_options) - 1, menu.current_index + 1)
            IN  menu' = [Press(menu) EXCEPT
                   !.current_index = i,
                   !.scroll_offset = IF i >= @ + max_visible
                                     THEN i - max_visible + 1 ELSE @]
    /\ UNCHANGED <<fs, noread, nowrite, call, tp, filtro_seleccionado,
                   nphotos, lab, btn>>

timer_seconds(name) ==
    CASE name = "Desactivado" -> 0
      [] name = "3 segundos" -> 3
      [] name = "5 segundos" -> 5
      [] name = "10 segundos" -> 10

\* delete_photos: every .jpg of the photo directory is removed.
delete_photos(files) ==
    [p \in Paths |-> IF p \in PhotoPaths THEN NoFile ELSE files[p]]

confirm_selection ==
    /\ menu # NoMenu
    /\ menu.running
    /\ menu.presses < MaxPresses
    /\ tp.pc = "idle"
    /\ IF menu.submenu_active
       THEN IF menu.submenu_type = "filtros"
            THEN /\ filtro_seleccionado' = submenu_filtros_options[menu.filtro_index + 1]
                 /\ menu' = [Press(menu) EXCEPT !.submenu_active = FALSE,
                                          !.submenu_type = "None"]
                 /\ fs' = fs
            ELSE IF menu.submenu_type = "timer"
            THEN /\ menu' = [Press(menu) EXCEPT
                       !.timer_seleccionado = submenu_timer_options[menu.timer_index + 1],
                       !.timer_segundos =
                           timer_seconds(submenu_timer_options[menu.timer_index + 1]),
                       !.submenu_active = FALSE,
                       !.submenu_type = "None"]
                 /\ UNCHANGED <<filtro_seleccionado, fs>>
            ELSE /\ menu' = Press(menu)
                 /\ UNCHANGED <<filtro_seleccionado, fs>>
       ELSE LET option == menu_options[menu.current_index + 1]
            IN  /\ menu' =
                     CASE option = "Filtros" ->
                            [Press(menu) EXCEPT !.submenu_active = TRUE,
                                         !.submenu_type = "filtros"]
                       [] option = "Temporizador" ->
                            [Press(menu) EXCEPT !.submenu_active = TRUE,
                                         !.submenu_type = "timer"]
                       [] option = "Apagar Raspberry" ->
                            [Press(menu) EXCEPT !.running = FALSE]
                       [] option = "Bluetooth" ->
                            [Press(menu) EXCEPT !.bluetooth_active = ~@]
                       [] OTHER -> Press(menu)
                /\ fs' = IF option = "Borrar Fotos" THEN delete_photos(fs) ELSE fs
                /\ UNCHANGED filtro_seleccionado
    /\ UNCHANGED <<noread, nowrite, call, tp, nphotos, lab, btn>>

\* take_current_photo: option = menu_options[current_index]; for the two photo
\* entries the countdown runs and take_photo(option) is called, whose steps
\* are the TP_ actions; for any other entry only the display is redrawn.
take_current_photo_any_entry ==
    /\ menu # NoMenu
    /\ menu.running
    /\ menu.presses < MaxPresses
    /\ tp.pc = "idle"
    /\ call.pc = "idle"
    /\ nphotos < MaxPhotos
    /\ LET option == menu_options[menu.current_index + 1]
       IN  /\ menu' = [Press(menu) EXCEPT !.last_take =
                         [pressed |-> TRUE,
                          submenu_active |-> menu.submenu_active,
                          started |-> TRUE]]
           /\ tp' = [IdleTp EXCEPT !.pc = "check", !.mode = option, !.fs0 = fs]
           /\ nphotos' = nphotos + 1
    /\ UNCHANGED <<fs, noread, nowrite, call, filtro_seleccionado, lab, btn>>

take_current_photo ==
    /\ menu # NoMenu
    /\ menu.running
    /\ menu.presses < MaxPresses
    /\ tp.pc = "idle"
    /\ call.pc = "idle"
    /\ LET option == menu_options[menu.current_index + 1]
       IN  IF option \in PhotoModes
           THEN /\ nphotos < MaxPhotos
                /\ menu' = [Press(menu) EXCEPT !.last_take =
                              [pressed |-> TRUE,
                               submenu_active |-> menu.submenu_active,
                               started |-> TRUE]]
                /\ tp' = [IdleTp EXCEPT !.pc = "check", !.mode = option,
                                        !.fs0 = fs]
                /\ nphotos' = nphotos + 1
           ELSE /\ menu' = [Press(menu) EXCEPT !.last_take =
                              [pressed |-> TRUE,
                               submenu_active |-> menu.submenu_active,
                               started |-> FALSE]]
                /\ UNCHANGED <<tp, nphotos>>
    /\ UNCHANGED <<fs, noread, nowrite, call, filtro_seleccionado, lab, btn>>

InitMenu ==
    /\ fs = [p \in Paths |-> NoFile]
    /\ noread = {}
    /\ nowrite = {}
    /\ call = IdleCall
    /\ tp = IdleTp
    /\ filtro_seleccionado = "Normal"
    /\ nphotos = 0
    /\ lab = NoLab
    /\ menu = InitialMenu
    /\ btn = NoBtn

NextMenu ==
    \/ scroll_up
    \/ scroll_down
    \/ confirm_selection
    \/ take_current_photo
    \/ TP_Check
    \/ TP_Kill
    \/ TP_Capture
    \/ TP_ApplyFilter
    \/ Load
    \/ TransformStep
    \/ Encode
    \/ Fallback
    \/ TP_FilterDone
    \/ TP_Finish
    \/ TP_Return

SpecMenu == InitMenu /\ [][NextMenu]_vars

\* C20: after any presses of UP, DOWN and ENTER the selected item of the active
\* menu is inside the visible window: offset <= index < offset + 3 and
\* 0 <= index < number of items, in the main menu and in both submenus.
C20_Original ==
    menu # NoMenu
    => LET sub == menu.submenu_active
           filtros == sub /\ menu.submenu_type = "filtros"
           index == IF filtros THEN menu.filtro_index
                    ELSE IF sub THEN menu.timer_index ELSE menu.current_index
           offset == IF filtros THEN menu.filtro_scroll
                     ELSE IF sub THEN menu.timer_scroll ELSE menu.scroll_offset
           items == IF filtros THEN Len(submenu_filtros_options)
                    ELSE IF sub THEN Len(submenu_timer_options)
                    ELSE Len(menu_options)
       IN  /\ offset <= index
           /\ index < offset + 3
           /\ 0 <= index
           /\ index < items

\* No capture is in progress while a submenu is open and the open submenu is
\* the one the main-menu selection names; a capture in progress was started
\* from a photo entry of the main menu; the last TAKE press served with a
\* submenu open started nothing.
SubmenuHoldsCapture ==
    LET option == menu_options[menu.current_index + 1]
    IN  /\ menu.submenu_active
           => /\ option \in {"Filtros", "Temporizador"}
              /\ menu.submenu_type = (IF option = "Filtros" THEN "filtros" ELSE "timer")
              /\ tp.pc = "idle"
              /\ call.pc = "idle"
        /\ tp.pc # "idle"
           => /\ ~menu.submenu_active
              /\ option \in {"Foto B/N", "Foto Color"}
              /\ tp.mode = option
        /\ menu.last_take.submenu_active => ~menu.last_take.started

\* C21: no photo is captured while a submenu is open: with submenu_active the
\* main-menu selection is Filtros or Temporizador, a step taken with the
\* submenu open starts no capture and, while the submenu stays open, leaves
\* current_index and scroll_offset unchanged; a capture is started only from
\* the entries Foto B/N and Foto Color.
C21_NoPhotoInSubmenu ==
    [][menu # NoMenu
       => /\ SubmenuHoldsCapture
          /\ SubmenuHoldsCapture'
          /\ menu.submenu_active
             => /\ tp' = tp
                /\ nphotos' = nphotos
                /\ fs' = fs
          /\ (menu.submenu_active /\ menu'.submenu_active)
             => /\ menu'.current_index = menu.current_index
                /\ menu'.scroll_offset = menu.scroll_offset
          /\ (tp.pc = "idle" /\ tp'.pc # "idle")
             => /\ menu_options[menu.current_index + 1] \in {"Foto B/N", "Foto Color"}
                /\ ~menu.submenu_active]_vars

\* TAKE was pressed in the Filtros submenu after a move inside it, and no
\* photo was taken.
C21_Witness ==
    /\ menu # NoMenu
    /\ menu.submenu_active
    /\ menu.submenu_type = "filtros"
    /\ menu.current_index = 2
    /\ menu.filtro_index = 1
    /\ menu.last_take = [pressed |-> TRUE, submenu_active |-> TRUE,
                         started |-> FALSE]
    /\ tp = IdleTp
    /\ nphotos = 0

====
